---- MODULE Spec2Model ----
(***************************************************************************)
(* Model of the science-tree generator (sciencetree.py), the embedding     *)
(* retrieval system (semantic_search.py) and the temporal query analyzer   *)
(* (temporal.py).                                                          *)
(*                                                                         *)
(* Strings of the program are sequences of one-character strings, so that  *)
(* str.split, str.replace and the `in` operator are computed, not assumed. *)
(* Three specifications share the module:                                  *)
(*   Spec / FairSpec : recursive construction of a scienceTreeNode tree    *)
(*   ParseSpec       : the per-line parsing step of generate               *)
(*   RetrSpec        : retrieve / rank_and_filter / analyze_temporal_query *)
(*   CtxSpec         : get_document_texts / retrieve_context               *)
(***************************************************************************)
EXTENDS Integers, Sequences, FiniteSets, TLC

VARIABLES
    nodes,      \* scienceTreeNode objects, in order of creation (index = identity)
    stack,      \* call stack of the running constructors / generate calls
    status,     \* "idle", "running", "done" (root constructor returned), "raised"
    failure,    \* the exception that ended the construction, if any
    retrLog,    \* retriever.retrieve calls made, by node
    genLog,     \* generation_client.messages.create calls made
    linesLeft,  \* non-empty response lines the generation client may still produce
    pair,       \* ParseSpec: the response line handed to the loop body
    outcome,    \* ParseSpec: what the loop body did with it
    system,     \* RetrSpec: the EmbeddingRetrievalSystem object
    call,       \* RetrSpec: the call made and what its collaborators answered
    results,    \* RetrSpec: the scored candidates built by rank_and_filter
    returned,   \* RetrSpec: how the call ended and what it returned
    clientCalls,    \* RetrSpec: anthropic_client.messages.create calls made
    analyzerCalls,  \* RetrSpec: analyze_temporal_query calls made by retrieve
    tree_output,    \* app.py: the tree record held by the interface, and where it came from
    file            \* app.py: the content of the saved tree file, <<>> before a save

treeVars == <<nodes, stack, status, failure, retrLog, genLog, linesLeft>>
parseVars == <<pair, outcome>>
retrVars == <<system, call, results, returned, clientCalls, analyzerCalls>>
appVars == <<tree_output, file>>

(***************************************************************************)
(* Bounds                                                                  *)
(***************************************************************************)
MaxN == 2            \* largest branching factor tried
MaxLines == 2        \* most non-empty lines in one generation response
MaxTotalLines == 3   \* most non-empty lines over all responses of one run
MaxLineLen == 4      \* longest response line in ParseSpec
MaxSim == 1          \* similarities range over -MaxSim..MaxSim
MaxTopK == 2         \* largest top_k tried
MaxIds == 3          \* longest id list handed to get_document_texts

(***************************************************************************)
(* Strings                                                                 *)
(***************************************************************************)
None == "None"

\* Python: ch in s
Contains(s, ch) == \E i \in 1..Len(s) : s[i] = ch

\* Python: a non-empty str literal is truthy
Truthy(s) == s # ""

\* position of the first ch in s, Len(s)+1 if there is none
RECURSIVE FirstIndex(_, _, _)
FirstIndex(s, ch, i) ==
    IF i > Len(s) THEN Len(s) + 1
    ELSE IF s[i] = ch THEN i
    ELSE FirstIndex(s, ch, i + 1)

\* Python: s.split(ch), the list of the segments between the separators
RECURSIVE Split(_, _)
Split(s, ch) ==
    LET i == FirstIndex(s, ch, 1) IN
    IF i > Len(s) THEN <<s>>
    ELSE <<SubSeq(s, 1, i - 1)>> \o Split(SubSeq(s, i + 1, Len(s)), ch)

\* Python: s.replace(ch, '')
Replace(s, ch) == SelectSeq(s, LAMBDA c : c # ch)

(***************************************************************************)
(* scienceTreeNode.generate, the loop body (sciencetree.py 93-97)          *)
(***************************************************************************)
\* if '{' and '}' in pair:
AcceptsPair(p) == Truthy("{") /\ Contains(p, "}")

\* pair.split('{')[1].replace('}', '')   (raises IndexError without a '{')
HasSecondSegment(p) == Len(Split(p, "{")) >= 2

ChildText(p) == Replace(Split(p, "{")[2], "}")

\* what one iteration of the loop does with a line
ParsePair(p) ==
    IF ~AcceptsPair(p) THEN [kind |-> "skip", text |-> <<>>]
    ELSE IF ~HasSecondSegment(p) THEN [kind |-> "raise", text |-> <<>>]
    ELSE [kind |-> "child", text |-> ChildText(p)]

(***************************************************************************)
(* scienceTreeNode.__init__                                                *)
(***************************************************************************)
TerminalMode == 3
DefaultN == 2
DefaultTemperature == 5      \* 0.5, in tenths
DefaultModel == "claude-3-5-sonnet-20240620"
DefaultBackground == <<"expert astronomer">>

\* sciencetree.py 27-36: which client the node ends up with
ResolveClient(generation_client, configExists, api_key) ==
    IF generation_client # None THEN generation_client
    ELSE IF configExists THEN "Anthropic(config)"
    ELSE IF api_key # None THEN "Anthropic(api_key)"
    ELSE None           \* attribute never set

\* sciencetree.py 38-45
ResolveBackground(background, experiment) ==
    IF background # None THEN background
    ELSE IF experiment # None THEN DefaultBackground \o experiment
    ELSE DefaultBackground

\* the object after lines 18-47
NewNode(text, year, n, temperature, background, experiment, mode, generation_model, api_key, generation_client, configExists) ==
    [ text |-> text,
      docs |-> <<>>,
      year |-> year,
      generation_model |-> generation_model,
      mode |-> mode,
      n |-> n,
      temperature |-> temperature,
      generation_client |-> ResolveClient(generation_client, configExists, api_key),
      background |-> ResolveBackground(background, experiment),
      children |-> <<>>,
      parent |-> 0 ]      \* the node whose generate called the constructor, 0 for the root

\* line 49: if mode < 3
ShouldGenerateOffByOne(mode) == mode <= TerminalMode
ShouldGenerate(mode) == mode < TerminalMode

\* line 97: mode = self.mode + 1
ChildModeNoIncrement(mode) == mode
ChildMode(mode) == mode + 1

\* line 97: the constructor call for a child; what is not passed takes its default
ChildNodeDefaultN(self, id, text) ==
    [ NewNode(text, self.year, DefaultN, DefaultTemperature, self.background, None,
              ChildMode(self.mode), DefaultModel, None, self.generation_client, TRUE)
      EXCEPT !.parent = id ]
ChildNode(self, id, text) ==
    [ NewNode(text, self.year, self.n, DefaultTemperature, self.background, None,
              ChildMode(self.mode), DefaultModel, None, self.generation_client, TRUE)
      EXCEPT !.parent = id ]

(***************************************************************************)
(* Inputs of a run                                                         *)
(***************************************************************************)
RootText == <<"g", "\"">>      \* a goal with a quotation mark in it

\* the constructor calls tried for the root, besides n and mode
RootCalls ==
    { \* as app.py calls it, no config file: api_key only
      [year |-> 2024, temperature |-> 5, background |-> None, experiment |-> None,
       generation_model |-> DefaultModel, generation_client |-> None,
       configExists |-> FALSE, api_key |-> "key"],
      \* everything given by the caller, client injected
      [year |-> 2000, temperature |-> 9, background |-> <<"persona">>, experiment |-> None,
       generation_model |-> "other-model", generation_client |-> "injected",
       configExists |-> FALSE, api_key |-> None],
      \* default persona extended by an experiment, key from the config file
      [year |-> 2024, temperature |-> 9, background |-> None, experiment |-> <<"x-ray">>,
       generation_model |-> DefaultModel, generation_client |-> None,
       configExists |-> TRUE, api_key |-> None],
      \* no client, no config file, no key
      [year |-> 2024, temperature |-> 5, background |-> None, experiment |-> None,
       generation_model |-> DefaultModel, generation_client |-> None,
       configExists |-> FALSE, api_key |-> None] }
RootModes == 0..TerminalMode

\* documents the retriever returns for a node (retrieve + get_document_texts)
\* an id is a sequence of pieces, so that format_paper_link can take it apart
DocResults ==
    { <<>>,
      << <<"astro-ph", "0001", "_", "sec2", ".txt">>, <<"2301.00001">> >> }

\* response lines used when building trees
EmptyLine == <<>>
LineSamples ==
    { <<"{", "a", "}">>,        \* well-formed entry
      <<"a">>,                  \* no brace
      <<"{", "a">>,             \* only '{'
      <<"a", "}">>,             \* only '}'
      <<"}", "{", "b">> }       \* '}' before '{'

RECURSIVE SeqsUpTo(_, _)
SeqsUpTo(S, k) ==
    IF k = 0 THEN { <<>> }
    ELSE LET shorter == SeqsUpTo(S, k - 1) IN
         shorter \cup { Append(s, x) : s \in { t \in shorter : Len(t) = k - 1 }, x \in S }

Min(a, b) == IF a < b THEN a ELSE b

\* message.split('\n') for the responses the client may give with b lines left:
\* the empty response is one empty line
Messages(b) ==
    { <<EmptyLine>> } \cup (SeqsUpTo(LineSamples, Min(MaxLines, b)) \ { <<>> })

NonEmptyLines(msg) == Len(SelectSeq(msg, LAMBDA l : l # EmptyLine))

(***************************************************************************)
(* Tree construction as a stack machine                                    *)
(***************************************************************************)
NoFailure == [kind |-> "none", node |-> 0]

Top == stack[Len(stack)]
Pop(s) == SubSeq(s, 1, Len(s) - 1)
Frame(id) == [node |-> id, phase |-> "generate", lines |-> <<>>, children |-> <<>>]

TreeInit ==
    /\ nodes = <<>>
    /\ stack = <<>>
    /\ status = "idle"
    /\ failure = NoFailure
    /\ retrLog = <<>>
    /\ genLog = <<>>
    /\ linesLeft = MaxTotalLines

\* exception leaves every active frame: nothing in sciencetree.py or app.py catches it
Raise(kind, id) ==
    /\ status' = "raised"
    /\ stack' = <<>>
    /\ failure' = [kind |-> kind, node |-> id]

\* scienceTreeNode(...) called by the application: lines 17-50 up to the call of generate
Construct ==
    /\ status = "idle"
    /\ \E a \in RootCalls, n \in 1..MaxN, mode \in RootModes :
        LET node == NewNode(RootText, a.year, n, a.temperature, a.background,
                            a.experiment, mode, a.generation_model, a.api_key,
                            a.generation_client, a.configExists) IN
        /\ nodes' = <<node>>
        /\ IF ShouldGenerate(mode)
           THEN /\ stack' = <<Frame(1)>>
                /\ status' = "running"
           ELSE /\ stack' = <<>>
                /\ status' = "done"
    /\ UNCHANGED <<failure, retrLog, genLog, linesLeft>>

\* generate, lines 57-89: retrieval, prompt, generation call
Generate ==
    /\ status = "running"
    /\ Top.phase = "generate"
    /\ LET id == Top.node
           self == nodes[id]
           request == [node |-> id, temperature |-> self.temperature,
                    model |-> self.generation_model, response |-> <<>>] IN
       /\ retrLog' = Append(retrLog, id)
       /\ \/ \* retriever.retrieve raises
             /\ Raise("RetrievalError", id)
             /\ UNCHANGED <<nodes, genLog, linesLeft>>
          \/ \E docs \in DocResults :
             /\ nodes' = [nodes EXCEPT ![id].docs = docs]
             /\ IF self.generation_client = None
                THEN \* AttributeError: no generation_client was ever set
                     /\ Raise("CredentialError", id)
                     /\ UNCHANGED <<genLog, linesLeft>>
                ELSE \/ \* messages.create raises
                        /\ genLog' = Append(genLog, request)
                        /\ Raise("GenerationAPIError", id)
                        /\ UNCHANGED linesLeft
                     \/ \E msg \in Messages(linesLeft) :
                        /\ genLog' = Append(genLog, [request EXCEPT !.response = msg])
                        /\ stack' = [stack EXCEPT ![Len(stack)] =
                               [@ EXCEPT !.phase = "loop", !.lines = msg]]
                        /\ linesLeft' = linesLeft - NonEmptyLines(msg)
                        /\ UNCHANGED <<status, failure>>

\* generate, lines 93-97: one iteration of the loop over the response lines
LoopStep ==
    /\ status = "running"
    /\ Top.phase = "loop"
    /\ Top.lines # <<>>
    /\ LET id == Top.node
           self == nodes[id]
           res == ParsePair(Head(Top.lines))
           cid == Len(nodes) + 1
           child == ChildNode(self, id, res.text) IN
       CASE res.kind = "skip" ->
              /\ stack' = [stack EXCEPT ![Len(stack)].lines = Tail(@)]
              /\ UNCHANGED <<nodes, status, failure>>
         [] res.kind = "raise" ->
              /\ Raise("IndexError", id)
              /\ UNCHANGED nodes
         [] res.kind = "child" ->
              /\ nodes' = Append(nodes, child)
              /\ IF ShouldGenerate(child.mode)
                 THEN \* the child's constructor calls generate in turn
                      stack' = Append(stack, Frame(cid))
                 ELSE \* the child's constructor returns at once: children.append
                      stack' = [stack EXCEPT ![Len(stack)] =
                          [@ EXCEPT !.lines = Tail(@), !.children = Append(@, cid)]]
              /\ UNCHANGED <<status, failure>>
    /\ UNCHANGED <<retrLog, genLog, linesLeft>>

\* generate, line 99, and line 50 of the constructor that called it; the caller's
\* children.append(...) of line 97 when the constructor was called from a loop
Return ==
    /\ status = "running"
    /\ Top.phase = "loop"
    /\ Top.lines = <<>>
    /\ LET id == Top.node IN
       /\ nodes' = [nodes EXCEPT ![id].children = Top.children]
       /\ IF Len(stack) = 1
          THEN /\ stack' = <<>>
               /\ status' = "done"
          ELSE /\ stack' = [Pop(stack) EXCEPT ![Len(stack) - 1] =
                      [@ EXCEPT !.lines = Tail(@), !.children = Append(@, id)]]
               /\ UNCHANGED status
    /\ UNCHANGED <<failure, retrLog, genLog, linesLeft>>

(***************************************************************************)
(* ParseSpec: the loop body applied to every line over a small alphabet    *)
(***************************************************************************)
Chars == {"{", "}", "a", "b"}
Lines == SeqsUpTo(Chars, MaxLineLen)

ParseIdle ==
    /\ pair = <<>>
    /\ outcome = [kind |-> "none", text |-> <<>>]

\* lines 94-95 applied to one line of a response
ParseLine ==
    /\ \E p \in Lines :
        /\ pair' = p
        /\ outcome' = ParsePair(p)
    /\ UNCHANGED treeVars
    /\ UNCHANGED retrVars
    /\ UNCHANGED appVars

(***************************************************************************)
(* temporal.py                                                             *)
(***************************************************************************)
\* words in which one alternative of the pattern finds a match; the pattern has no
\* word boundaries and ignores case, so "broad" matches (?:AD|BC)
CueWords == {"2015", "latest", "since", "broad"}
\* (?:last|past|next|coming|future)\s+\d+\s+(?:year|decade|century)
RelativeWords == {"last", "next", "coming"}
NumberWords == {"5"}
UnitWords == {"years", "decades"}

\* is_temporal_query, lines 19-35: pattern.search over the query
is_temporal_query(query) ==
    \E i \in 1..Len(query) :
        \/ query[i] \in CueWords
        \/ /\ i + 2 <= Len(query)
           /\ query[i] \in RelativeWords
           /\ query[i + 1] \in NumberWords
           /\ query[i + 2] \in UnitWords

NoTemporalAspect ==
    [has_temporal_aspect |-> FALSE, expected_year_filter |-> None,
     expected_recency_weight |-> None]

\* no result: the call raised, or was not made
NoResult ==
    [has_temporal_aspect |-> FALSE, expected_year_filter |-> "no result",
     expected_recency_weight |-> "no result"]

\* what the language model may answer: the text evaluates to a dict or does not,
\* and the dict has the two keys or lacks some; or the request itself fails
NoResponse == [fails |-> FALSE, evaluates |-> TRUE, keys |-> {}, year_filter |-> None, recency_weight |-> None]
ExpectedKeys == {"expected_year_filter", "expected_recency_weight"}
Responses ==
    { [fails |-> FALSE, evaluates |-> TRUE, keys |-> ExpectedKeys,
       year_filter |-> "year >= 2015", recency_weight |-> "8"],
      [fails |-> FALSE, evaluates |-> TRUE, keys |-> {"expected_year_filter"},
       year_filter |-> "year >= 2015", recency_weight |-> None],
      [fails |-> FALSE, evaluates |-> FALSE, keys |-> {},
       year_filter |-> None, recency_weight |-> None],
      [fails |-> TRUE, evaluates |-> FALSE, keys |-> {},
       year_filter |-> None, recency_weight |-> None] }

\* the part of a response that eval and the two subscripts of lines 82-88 accept
Parses(resp) == resp.evaluates /\ ExpectedKeys \subseteq resp.keys

\* analyze_temporal_query, lines 37-91, with the client's answer as a parameter:
\* how it ends, what it returns and how many client calls it made
analyze_temporal_query_AsksFirst(query, client, resp) ==
    IF client = None THEN [status |-> "raised", error |-> "AttributeError", result |-> NoResult, calls |-> 0]
    ELSE IF ~is_temporal_query(query) THEN [status |-> "ok", error |-> None, result |-> NoTemporalAspect, calls |-> 1]
    ELSE [status |-> "ok", error |-> None, calls |-> 1,
          result |-> [has_temporal_aspect |-> TRUE, expected_year_filter |-> resp.year_filter,
                      expected_recency_weight |-> resp.recency_weight]]
analyze_temporal_query(query, client, resp) ==
    IF ~is_temporal_query(query)
    THEN [status |-> "ok", error |-> None, result |-> NoTemporalAspect, calls |-> 0]
    ELSE IF client = None
    THEN [status |-> "raised", error |-> "AttributeError", result |-> NoResult, calls |-> 0]
    ELSE IF resp.fails
    THEN [status |-> "raised", error |-> "APIError", result |-> NoResult, calls |-> 1]
    ELSE IF ~resp.evaluates
    THEN [status |-> "raised", error |-> "SyntaxError", result |-> NoResult, calls |-> 1]
    ELSE IF ~(ExpectedKeys \subseteq resp.keys)
    THEN [status |-> "raised", error |-> "KeyError", result |-> NoResult, calls |-> 1]
    ELSE [status |-> "ok", error |-> None, calls |-> 1,
          result |-> [has_temporal_aspect |-> TRUE, expected_year_filter |-> resp.year_filter,
                      expected_recency_weight |-> resp.recency_weight]]

(***************************************************************************)
(* semantic_search.py                                                      *)
(***************************************************************************)
\* document ids in ascending order, and the rows of the embedding matrix
DocIds == <<"d1", "d2", "d3">>
NRows == 4
NoRow == 0
\* mappings of a document: d1 has both sections, d2 the abstract, d3 the conclusions
Mappings(doc) ==
    CASE doc = "d1" -> [abstract |-> 1, conclusions |-> 2]
      [] doc = "d2" -> [abstract |-> 3, conclusions |-> NoRow]
      [] doc = "d3" -> [abstract |-> NoRow, conclusions |-> 4]

\* -np.inf: below every similarity
NegInf == 0 - (MaxSim + 1)
SimValues == (0 - MaxSim)..MaxSim

\* lines 132-133
abstract_sim(similarities, doc) ==
    IF Mappings(doc).abstract # NoRow THEN similarities[Mappings(doc).abstract] ELSE NegInf
conclusions_sim(similarities, doc) ==
    IF Mappings(doc).conclusions # NoRow THEN similarities[Mappings(doc).conclusions] ELSE NegInf

\* lines 135-138: the candidate appended for one document
ScoreDocFlipped(similarities, doc) ==
    IF abstract_sim(similarities, doc) < conclusions_sim(similarities, doc)
    THEN [id |-> doc, section |-> "abstract", score |-> abstract_sim(similarities, doc)]
    ELSE [id |-> doc, section |-> "conclusions", score |-> conclusions_sim(similarities, doc)]
ScoreDoc(similarities, doc) ==
    IF abstract_sim(similarities, doc) > conclusions_sim(similarities, doc)
    THEN [id |-> doc, section |-> "abstract", score |-> abstract_sim(similarities, doc)]
    ELSE [id |-> doc, section |-> "conclusions", score |-> conclusions_sim(similarities, doc)]

\* lines 127-138: one candidate per item of index_mapping, in its iteration order
ScoreAll(index_mapping, similarities) ==
    [i \in 1..Len(index_mapping) |-> ScoreDoc(similarities, index_mapping[i])]

\* sorted(..., key = lambda x: x[2], reverse = True): stable, so that candidates of
\* equal score keep the order they had
InsertDesc(sorted, x) ==
    LET later == { i \in 1..Len(sorted) : sorted[i].score < x.score }
        at == IF later = {} THEN Len(sorted) + 1
              ELSE CHOOSE i \in later : \A j \in later : i <= j
    IN  SubSeq(sorted, 1, at - 1) \o <<x>> \o SubSeq(sorted, at, Len(sorted))

RECURSIVE SortedDesc(_)
SortedDesc(cands) ==
    IF cands = <<>> THEN <<>>
    ELSE InsertDesc(SortedDesc(SubSeq(cands, 1, Len(cands) - 1)), cands[Len(cands)])

\* [:top_k] for top_k >= 0
Take(seq, k) == SubSeq(seq, 1, Min(k, Len(seq)))

\* rank_and_filter, lines 149-158: the value returned
Ranked(cands, top_k, return_scores) ==
    LET top_results == Take(SortedDesc(cands), top_k) IN
    IF return_scores
    THEN [i \in 1..Len(top_results) |-> <<top_results[i].id, top_results[i].score>>]
    ELSE [i \in 1..Len(top_results) |-> top_results[i].id]

\* inputs
Permutations3(s) ==
    { <<s[i], s[j], s[k]>> : i \in 1..3, j \in 1..3, k \in 1..3 } \cap
    { p \in [1..3 -> {s[1], s[2], s[3]}] : \A a \in 1..3, b \in 1..3 : a # b => p[a] # p[b] }

\* a Document of self.documents: the texts of a document name the document
Document(id) == [id |-> id, abstract |-> <<"abstract of", id>>, conclusions |-> <<"conclusions of", id>>]
AllDocuments == [i \in 1..Len(DocIds) |-> Document(DocIds[i])]

\* the subsequences of a sequence
RECURSIVE SubSeqs(_)
SubSeqs(seq) ==
    IF seq = <<>> THEN { <<>> }
    ELSE LET rest == SubSeqs(Tail(seq)) IN rest \cup { <<Head(seq)>> \o r : r \in rest }

Systems ==
    { [index_mapping |-> m, weight_date |-> w, client |-> c, anthropic_client |-> c,
       documents |-> AllDocuments, metadata |-> None] :
        m \in Permutations3(DocIds), w \in BOOLEAN, c \in {None, "configured"} }
Queries ==
    { <<"stellar", "mass">>, <<"last", "orbit">>,
      <<"latest", "developments", "since", "2015">>, <<"last", "5", "years">> }
\* the time_result argument: None, or an intent the caller worked out
NoTimeResult == [given |-> FALSE, value |-> NoResult]
TimeResults ==
    { NoTimeResult,
      [given |-> TRUE,
       value |-> [has_temporal_aspect |-> TRUE, expected_year_filter |-> "year < 1990",
                  expected_recency_weight |-> "0"]] }
NoCall == [op |-> "none", query |-> <<>>, top_k |-> 0, return_scores |-> FALSE, time_result |-> NoTimeResult, similarities |-> <<>>, response |-> NoResponse, doc_ids |-> <<>>, sections |-> <<>>]
NotReturned == [status |-> "idle", error |-> None, value |-> <<>>, time_result |-> NoResult]

RetrIdle ==
    /\ call = NoCall
    /\ results = <<>>
    /\ returned = NotReturned
    /\ clientCalls = 0
    /\ analyzerCalls = 0

\* the object app.py creates at import: no ../config.yaml, clients not yet set
AppSystem == [index_mapping |-> DocIds, weight_date |-> FALSE, client |-> None, anthropic_client |-> None, documents |-> AllDocuments, metadata |-> None]

\* EmbeddingRetrievalSystem.__init__, lines 20-48
RetrInit ==
    /\ system \in Systems
    /\ RetrIdle

\* set_clients, lines 50-53
SetClients ==
    /\ returned.status = "idle"
    /\ system.client = None
    /\ system' = [system EXCEPT !.client = "set", !.anthropic_client = "set"]
    /\ UNCHANGED <<call, results, returned, clientCalls, analyzerCalls>>

\* retrieve, lines 105-116, with rank_and_filter, lines 118-158
Retrieve ==
    /\ returned.status = "idle"
    /\ \E query \in Queries, top_k \in 0..MaxTopK, return_scores \in BOOLEAN,
          time_result \in TimeResults, similarities \in [1..NRows -> SimValues],
          resp \in Responses :
       LET analyzed == ~time_result.given /\ system.weight_date
           asked == analyzed /\ is_temporal_query(query) /\ system.anthropic_client # None
           answer == IF asked THEN resp ELSE NoResponse
           analysis == analyze_temporal_query(query, system.anthropic_client, answer)
           used == IF time_result.given THEN time_result.value
                   ELSE IF system.weight_date THEN analysis.result
                   ELSE NoTemporalAspect
           cands == ScoreAll(system.index_mapping, similarities)
       IN
       /\ resp = IF asked THEN resp ELSE CHOOSE r \in Responses : TRUE
       /\ call' = [op |-> "retrieve", query |-> query, top_k |-> top_k,
                   return_scores |-> return_scores, time_result |-> time_result,
                   similarities |-> similarities, response |-> answer,
                   doc_ids |-> <<>>, sections |-> <<>>]
       /\ IF system.client = None
          THEN \* get_query_embedding: self.client is None
               /\ returned' = [status |-> "raised", error |-> "AttributeError",
                               value |-> <<>>, time_result |-> NoResult]
               /\ UNCHANGED <<results, clientCalls, analyzerCalls>>
          ELSE /\ analyzerCalls' = IF analyzed THEN 1 ELSE 0
               /\ clientCalls' = IF analyzed THEN analysis.calls ELSE 0
               /\ IF analyzed /\ analysis.status = "raised"
                  THEN \* the exception of the analyzer leaves retrieve
                       /\ returned' = [status |-> "raised", error |-> analysis.error,
                                       value |-> <<>>, time_result |-> NoResult]
                       /\ UNCHANGED results
                  ELSE /\ results' = cands
                       /\ returned' = [status |-> "ok", error |-> None,
                                       value |-> Ranked(cands, top_k, return_scores),
                                       time_result |-> used]
    /\ UNCHANGED system

\* analyze_temporal_query called on its own
Analyze ==
    /\ returned.status = "idle"
    /\ \E query \in Queries, resp \in Responses :
       LET asked == is_temporal_query(query) /\ system.anthropic_client # None
           answer == IF asked THEN resp ELSE NoResponse
           analysis == analyze_temporal_query(query, system.anthropic_client, answer)
       IN
       /\ resp = IF asked THEN resp ELSE CHOOSE r \in Responses : TRUE
       /\ call' = [NoCall EXCEPT !.op = "analyze", !.query = query, !.response = answer]
       /\ clientCalls' = analysis.calls
       /\ returned' = [status |-> analysis.status, error |-> analysis.error,
                       value |-> <<>>, time_result |-> analysis.result]
    /\ UNCHANGED <<system, results, analyzerCalls>>

(***************************************************************************)
(* get_document_texts and retrieve_context (semantic_search.py 164-193)    *)
(***************************************************************************)
\* next((d for d in self.documents if d.id == doc_id), None): position of the
\* first document with the id, 0 for None
FirstWithId(documents, doc_id) ==
    LET found == { i \in 1..Len(documents) : documents[i].id = doc_id } IN
    IF found = {} THEN 0 ELSE CHOOSE i \in found : \A j \in found : i <= j

\* lines 168-173: the record appended for a document
TextRecord(doc) == [id |-> doc.id, abstract |-> doc.abstract, conclusions |-> doc.conclusions]

\* get_document_texts, lines 164-176: the loop over doc_ids
get_document_texts_ByDocuments(documents, doc_ids) ==
    LET kept == SelectSeq(documents, LAMBDA d : \E i \in 1..Len(doc_ids) : doc_ids[i] = d.id)
    IN  [i \in 1..Len(kept) |-> TextRecord(kept[i])]
RECURSIVE get_document_texts(_, _)
get_document_texts(documents, doc_ids) ==
    IF doc_ids = <<>> THEN <<>>
    ELSE LET at == FirstWithId(documents, Head(doc_ids))
             rest == get_document_texts(documents, Tail(doc_ids))
         IN  IF at # 0 THEN <<TextRecord(documents[at])>> \o rest
             ELSE rest      \* warning printed, nothing appended

\* self.metadata[docid] when the metadata is loaded
MetaRow(docid) == [title |-> <<"title of", docid>>, citation_count |-> 0, keyword_search |-> <<>>]

\* lines 185-191: what the loop body adds for the i-th pair of zip(docids, doctexts)
ContextLines(docid, doctext, sections) ==
    [k \in 1..Len(sections) |->
        [docid |-> docid,
         text |-> IF sections[k] = "abstract" THEN doctext.abstract ELSE doctext.conclusions]]
ContextDocument(docid, doctext, score) ==
    [id |-> docid, abstract |-> doctext.abstract, conclusions |-> doctext.conclusions,
     arxiv_id |-> docid, title |-> MetaRow(docid).title, score |-> score,
     n_citation |-> MetaRow(docid).citation_count, keywords |-> MetaRow(docid).keyword_search]

RECURSIVE Flatten(_)
Flatten(seqs) == IF seqs = <<>> THEN <<>> ELSE Head(seqs) \o Flatten(Tail(seqs))

\* inputs
IdLists == SeqsUpTo({DocIds[i] : i \in 1..Len(DocIds)} \cup {"d9"}, MaxIds)
SectionLists == { <<"abstract", "conclusions">>, <<"abstract">> }
\* weight_date is off in CtxSystems: the query acts through the similarities only
CtxQueries == { <<"stellar", "mass">> }
CtxSystems ==
    { [index_mapping |-> m, weight_date |-> FALSE, client |-> "configured",
       anthropic_client |-> "configured", documents |-> d, metadata |-> md] :
        m \in Permutations3(DocIds), d \in SubSeqs(AllDocuments), md \in {None, "loaded"} }

\* EmbeddingRetrievalSystem.__init__ with the document set and metadata found
CtxInit ==
    /\ system \in CtxSystems
    /\ RetrIdle

\* get_document_texts, lines 164-176
GetDocumentTexts ==
    /\ returned.status = "idle"
    /\ \E doc_ids \in IdLists :
        /\ call' = [NoCall EXCEPT !.op = "get_document_texts", !.doc_ids = doc_ids]
        /\ returned' = [status |-> "ok", error |-> None,
                        value |-> get_document_texts(system.documents, doc_ids),
                        time_result |-> NoResult]
    /\ UNCHANGED <<system, results, clientCalls, analyzerCalls>>

\* retrieve_context, lines 178-193, without keyword arguments
RetrieveContext ==
    /\ returned.status = "idle"
    /\ ~system.weight_date
    /\ \E query \in CtxQueries, top_k \in 0..MaxTopK, sections \in SectionLists,
          similarities \in [1..NRows -> SimValues] :
       LET cands == ScoreAll(system.index_mapping, similarities)
           docs == Ranked(cands, top_k, TRUE)        \* retrieve(..., return_scores = True)
           docids == [i \in 1..Len(docs) |-> docs[i][1]]
           doctexts == get_document_texts(system.documents, docids)
           pairs == Min(Len(docids), Len(doctexts))  \* zip stops at the shorter one
       IN
       /\ call' = [NoCall EXCEPT !.op = "retrieve_context", !.query = query, !.top_k = top_k,
                                 !.return_scores = TRUE, !.similarities = similarities,
                                 !.sections = sections]
       /\ IF system.client = None
          THEN \* get_query_embedding: self.client is None
               /\ returned' = [status |-> "raised", error |-> "AttributeError",
                               value |-> <<>>, time_result |-> NoResult]
               /\ UNCHANGED results
          ELSE /\ results' = cands
               /\ IF pairs > 0 /\ system.metadata = None
                  THEN \* self.metadata[docid]: None is not subscriptable
                       returned' = [status |-> "raised", error |-> "TypeError",
                                    value |-> <<>>, time_result |-> NoResult]
                  ELSE returned' =
                         [status |-> "ok", error |-> None, time_result |-> NoTemporalAspect,
                          value |->
                            [context_str |-> Flatten([i \in 1..pairs |->
                                 ContextLines(docids[i], doctexts[i], sections)]),
                             doclist |-> [i \in 1..pairs |->
                                 ContextDocument(docids[i], doctexts[i], docs[i][2])]]]
    /\ UNCHANGED <<system, clientCalls, analyzerCalls>>

(***************************************************************************)
(* app.py: export of a tree, save and load                                 *)
(***************************************************************************)
\* format_paper_link, lines 46-51
format_paper_link(paper_id) ==
    IF Contains(paper_id, ".txt")
    THEN LET before == Split(paper_id, "_")[1]
             pieces == Split(before, "astro-ph")
         IN  <<"https://arxiv.org/abs/astro-ph/">> \o pieces[Len(pieces)]
    ELSE <<"https://arxiv.org/abs/">> \o paper_id

Reverse(seq) == [i \in 1..Len(seq) |-> seq[Len(seq) + 1 - i]]

\* build_tree_structure, lines 32-39
RECURSIVE build_tree_structure_Reversed(_)
build_tree_structure_Reversed(id) ==
    LET node == nodes[id]
        result == [text |-> node.text,
                   papers |-> [i \in 1..Len(node.docs) |-> format_paper_link(node.docs[i])]]
    IN  IF node.children # <<>>
        THEN result @@ ("children" :>
                 [i \in 1..Len(node.children) |->
                     build_tree_structure_Reversed(Reverse(node.children)[i])])
        ELSE result
RECURSIVE build_tree_structure(_)
build_tree_structure(id) ==
    LET node == nodes[id]
        result == [text |-> node.text,
                   papers |-> [i \in 1..Len(node.docs) |-> format_paper_link(node.docs[i])]]
    IN  IF node.children # <<>>
        THEN result @@ ("children" :>
                 [i \in 1..Len(node.children) |-> build_tree_structure(node.children[i])])
        ELSE result

\* json: a file is a sequence of tokens, a string token holding the escaped text
Token(t) == [t |-> t, s |-> <<>>]
RECURSIVE JsonEscape(_)
JsonEscape(str) ==
    IF str = <<>> THEN <<>>
    ELSE (IF Head(str) \in {"\"", "\\"} THEN <<"\\", Head(str)>> ELSE <<Head(str)>>)
         \o JsonEscape(Tail(str))
RECURSIVE JsonUnescape(_)
JsonUnescape(str) ==
    IF str = <<>> THEN <<>>
    ELSE IF Head(str) = "\\" THEN <<str[2]>> \o JsonUnescape(SubSeq(str, 3, Len(str)))
    ELSE <<Head(str)>> \o JsonUnescape(Tail(str))
StrToken(str) == [t |-> "str", s |-> JsonEscape(str)]
KeyToken(key) == [t |-> "key", s |-> <<key>>]

\* json.dump of a tree record, line 58
RECURSIVE JsonDump(_)
JsonDump(rec) ==
    <<Token("{"), KeyToken("text"), StrToken(rec.text), KeyToken("papers"), Token("[")>>
    \o [i \in 1..Len(rec.papers) |-> StrToken(rec.papers[i])]
    \o <<Token("]")>>
    \o (IF "children" \in DOMAIN rec
        THEN <<KeyToken("children"), Token("[")>>
             \o Flatten([i \in 1..Len(rec.children) |-> JsonDump(rec.children[i])])
             \o <<Token("]")>>
        ELSE <<>>)
    \o <<Token("}")>>

\* json.load, line 65: the value that starts at token i, and the index of the
\* token after it. Each value v is read once, then the rest after it
RECURSIVE JsonValue(_, _)
RECURSIVE JsonArray(_, _, _)
RECURSIVE JsonObject(_, _, _)
JsonValue(toks, i) ==
    IF toks[i].t = "str" THEN [val |-> JsonUnescape(toks[i].s), next |-> i + 1]
    ELSE IF toks[i].t = "[" THEN JsonArray(toks, i + 1, <<>>)
    ELSE JsonObject(toks, i + 1, <<>>)
\* the rest of a list whose first values are acc
JsonArray(toks, i, acc) ==
    IF toks[i].t = "]" THEN [val |-> acc, next |-> i + 1]
    ELSE CHOOSE rest \in { JsonArray(toks, v.next, Append(acc, v.val)) :
                            v \in {JsonValue(toks, i)} } : TRUE
\* the rest of a dict whose first members are acc; a repeated key keeps the
\* last value
JsonObject(toks, i, acc) ==
    IF toks[i].t = "}" THEN [val |-> acc, next |-> i + 1]
    ELSE CHOOSE rest \in { JsonObject(toks, v.next, (toks[i].s[1] :> v.val) @@ acc) :
                            v \in {JsonValue(toks, i + 1)} } : TRUE
JsonLoad(toks) == JsonValue(toks, 1).val

NoTree == [source |-> "none", tree |-> <<>>]
AppIdle ==
    /\ tree_output = NoTree
    /\ file = <<>>

\* generate_science_tree, lines 32-44, once the root constructor has returned
ExportTree ==
    /\ status = "done"
    /\ tree_output.source = "none"
    /\ tree_output' = [source |-> "generate", tree |-> <<build_tree_structure(1)>>]
    /\ UNCHANGED file

\* save_tree_to_file, lines 53-59
SaveTree ==
    /\ tree_output.source = "generate"
    /\ file = <<>>
    /\ file' = JsonDump(tree_output.tree[1])
    /\ UNCHANGED tree_output

\* load_tree_from_file, lines 61-65
LoadTree ==
    /\ file # <<>>
    /\ tree_output.source = "generate"
    /\ tree_output' = [source |-> "file", tree |-> <<JsonLoad(file)>>]
    /\ UNCHANGED file

(***************************************************************************)
(* Specifications                                                          *)
(***************************************************************************)
vars == <<nodes, stack, status, failure, retrLog, genLog, linesLeft, pair, outcome, system, call, results, returned, clientCalls, analyzerCalls, tree_output, file>>

Init == TreeInit /\ ParseIdle /\ system = AppSystem /\ RetrIdle /\ AppIdle
Next ==
    \/ Construct /\ UNCHANGED parseVars /\ UNCHANGED retrVars /\ UNCHANGED appVars
    \/ Generate /\ UNCHANGED parseVars /\ UNCHANGED retrVars /\ UNCHANGED appVars
    \/ LoopStep /\ UNCHANGED parseVars /\ UNCHANGED retrVars /\ UNCHANGED appVars
    \/ Return /\ UNCHANGED parseVars /\ UNCHANGED retrVars /\ UNCHANGED appVars
    \/ ExportTree /\ UNCHANGED treeVars /\ UNCHANGED parseVars /\ UNCHANGED retrVars
    \/ SaveTree /\ UNCHANGED treeVars /\ UNCHANGED parseVars /\ UNCHANGED retrVars
    \/ LoadTree /\ UNCHANGED treeVars /\ UNCHANGED parseVars /\ UNCHANGED retrVars
Spec == Init /\ [][Next]_vars
\* the constructor of the root runs to completion once it is called: its
\* steps are taken as long as one is possible. Exporting, saving and loading
\* are left to the application's user and are not forced
TreeNext ==
    (Construct \/ Generate \/ LoopStep \/ Return)
    /\ UNCHANGED parseVars /\ UNCHANGED retrVars /\ UNCHANGED appVars
FairSpec == Spec /\ WF_vars(TreeNext)

ParseNext == ParseLine
ParseSpec == Init /\ [][ParseNext]_vars

RetrSpecInit == TreeInit /\ ParseIdle /\ RetrInit /\ AppIdle
RetrNext ==
    \/ SetClients /\ UNCHANGED treeVars /\ UNCHANGED parseVars /\ UNCHANGED appVars
    \/ Retrieve /\ UNCHANGED treeVars /\ UNCHANGED parseVars /\ UNCHANGED appVars
    \/ Analyze /\ UNCHANGED treeVars /\ UNCHANGED parseVars /\ UNCHANGED appVars
RetrSpec == RetrSpecInit /\ [][RetrNext]_vars

CtxSpecInit == TreeInit /\ ParseIdle /\ CtxInit /\ AppIdle
CtxNext ==
    \/ GetDocumentTexts /\ UNCHANGED treeVars /\ UNCHANGED parseVars /\ UNCHANGED appVars
    \/ RetrieveContext /\ UNCHANGED treeVars /\ UNCHANGED parseVars /\ UNCHANGED appVars
CtxSpec == CtxSpecInit /\ [][CtxNext]_vars

(***************************************************************************)
(* Properties of the tree                                                  *)
(***************************************************************************)
NodeIds == 1..Len(nodes)
Finished == status \in {"done", "raised"}
RootAtMode0 == nodes # <<>> /\ nodes[1].mode = 0

RECURSIVE Depth(_)
Depth(id) == IF nodes[id].parent = 0 THEN 0 ELSE 1 + Depth(nodes[id].parent)

Range(s) == { s[i] : i \in 1..Len(s) }
RetrievedFor(id) == \E i \in 1..Len(retrLog) : retrLog[i] = id
GeneratedFor(id) == \E i \in 1..Len(genLog) : genLog[i].node = id

\* the children a node holds, or is collecting in its running generate call
ChildrenOf(id) ==
    Range(nodes[id].children) \cup
    UNION { Range(stack[i].children) : i \in { j \in 1..Len(stack) : stack[j].node = id } }

\* a line with a complete delimited segment: a '{' and a later '}'
WellFormed(p) == \E i \in 1..Len(p), j \in 1..Len(p) : i < j /\ p[i] = "{" /\ p[j] = "}"
WellFormedCount(msg) == Len(SelectSeq(msg, WellFormed))

\* the text between the first '{' and the first '}' after it
Enclosed(p) ==
    LET i == FirstIndex(p, "{", 1)
        rest == SubSeq(p, i + 1, Len(p))
    IN  SubSeq(rest, 1, FirstIndex(rest, "}", 1) - 1)

\* C1: every node at mode 3 has an empty children list, and its construction
\* made no retriever.retrieve call and no generation-client call, whatever n is.
C1_Mode3IsLeaf ==
    \A id \in NodeIds :
        nodes[id].mode = TerminalMode =>
            /\ nodes[id].children = <<>>
            /\ ChildrenOf(id) = {}
            /\ ~RetrievedFor(id)
            /\ ~GeneratedFor(id)

C1_Witness ==
    /\ status = "done"
    /\ \E id \in NodeIds : nodes[id].mode = TerminalMode /\ nodes[id].parent # 0
    /\ \E id \in NodeIds : nodes[id].mode = TerminalMode /\ nodes[id].n = MaxN

\* C2: a finished expansion of a non-terminal node with branching factor n has
\* exactly n children if the response held exactly n well-formed entries,
\* exactly as many as the response held if it held fewer, and never more than n.
C2_ChildCount ==
    status = "done" =>
        \A i \in 1..Len(genLog) :
            LET self == nodes[genLog[i].node]
                k == WellFormedCount(genLog[i].response)
                c == Len(self.children)
            IN  /\ (k = self.n => c = self.n)
                /\ (k < self.n => c = k)
                /\ c <= self.n

\* C3: construction from a root at mode 0 terminates; every node lies as deep as
\* its mode says and at most 3 levels below the root, nodes at mode 3 are not
\* expanded, and when no call failed the number of generation calls equals the
\* number of nodes with mode < 3.
C3_Bounded ==
    RootAtMode0 =>
        /\ \A id \in NodeIds :
              /\ Depth(id) = nodes[id].mode
              /\ Depth(id) <= TerminalMode
              /\ nodes[id].mode = TerminalMode => ~GeneratedFor(id)
        /\ (Finished /\ failure.kind \in {"none", "IndexError"}) =>
              Len(genLog) = Cardinality({ id \in NodeIds : nodes[id].mode < TerminalMode })

\* C3: every construction ends, and C3_Bounded holds all along it.
C3_Terminates == <>Finished /\ []C3_Bounded

C3_Witness ==
    /\ RootAtMode0
    /\ status = "done"
    /\ \E id \in NodeIds : nodes[id].mode = TerminalMode /\ Depth(id) = TerminalMode
    /\ Len(genLog) = TerminalMode

\* C4: in a tree built from a root at mode 0 every mode is in 0..3, every child
\* has its parent's mode + 1 and its parent's year, n, background and client.
C4_Inherits ==
    RootAtMode0 =>
        /\ \A id \in NodeIds : nodes[id].mode \in 0..TerminalMode
        /\ \A id \in NodeIds : \A c \in ChildrenOf(id) : nodes[c].parent = id
        /\ \A c \in NodeIds :
              nodes[c].parent # 0 =>
                  LET p == nodes[nodes[c].parent] IN
                  /\ nodes[c].mode = p.mode + 1
                  /\ nodes[c].year = p.year
                  /\ nodes[c].n = p.n
                  /\ nodes[c].background = p.background
                  /\ nodes[c].generation_client = p.generation_client

C4_Witness ==
    /\ RootAtMode0
    /\ status = "done"
    /\ nodes[1].n = 1
    /\ nodes[1].background # DefaultBackground
    /\ \E c \in NodeIds : nodes[c].mode = 2 /\ c \in ChildrenOf(nodes[c].parent)

\* C5: a line becomes a child only if it holds a complete delimited segment, the
\* child's text being the enclosed text; every other line is skipped without an
\* error and without a child.
C5_OnlyCompleteSegments ==
    outcome.kind # "none" =>
        IF WellFormed(pair)
        THEN outcome = [kind |-> "child", text |-> Enclosed(pair)]
        ELSE outcome.kind = "skip"

\* C6: a missing credential, retrieval error or generation-call error in one
\* branch does not abort the construction of the tree: the construction goes on
\* and the subtrees built so far stay in their parents' child lists.
BranchFailure ==
    /\ failure.kind \in {"CredentialError", "RetrievalError", "GenerationAPIError"}
    /\ failure.node # 1
C6_FailureIsolated ==
    BranchFailure =>
        /\ status # "raised"
        /\ \A c \in NodeIds :
              (nodes[c].parent # 0 /\ c # failure.node /\ GeneratedFor(c)) =>
                  c \in ChildrenOf(nodes[c].parent)

\* C13: every generation call made while a tree is built, at mode 0, 1 and 2, uses
\* the temperature and the generation model the caller gave for the root node.
C13_RootTemperatureEverywhere ==
    \A i \in 1..Len(genLog) :
        /\ nodes[genLog[i].node].mode \in 0..(TerminalMode - 1)
        /\ genLog[i].temperature = nodes[1].temperature
        /\ genLog[i].model = nodes[1].generation_model

(***************************************************************************)
(* Properties of retrieval                                                 *)
(***************************************************************************)
Retrieved == call.op = "retrieve" /\ returned.status = "ok"

\* the ids of the returned value, in the order returned
ReturnedIds ==
    IF call.return_scores
    THEN [i \in 1..Len(returned.value) |-> returned.value[i][1]]
    ELSE returned.value

ScoreOf(id) == (CHOOSE r \in Range(results) : r.id = id).score
IdIndex(id) == CHOOSE i \in 1..Len(DocIds) : DocIds[i] = id
Max(a, b) == IF a >= b THEN a ELSE b

\* C7: retrieve with top_k = k returns at most k results, by score descending,
\* results of equal score by document id ascending, whatever the iteration order
\* of the index mapping.
C7_RankedWithTieBreak ==
    Retrieved =>
        /\ Len(ReturnedIds) <= call.top_k
        /\ \A i \in 1..Len(ReturnedIds), j \in 1..Len(ReturnedIds) :
              i < j =>
                  \/ ScoreOf(ReturnedIds[i]) > ScoreOf(ReturnedIds[j])
                  \/ /\ ScoreOf(ReturnedIds[i]) = ScoreOf(ReturnedIds[j])
                     /\ IdIndex(ReturnedIds[i]) < IdIndex(ReturnedIds[j])

\* C8: scoring yields exactly one candidate per document id of the index mapping;
\* its score is the larger of the abstract and conclusions similarities, a missing
\* section counting as negative infinity, and its tag names a section with that
\* similarity: the strictly higher one when both sections are embedded.
C8_MaxSection ==
    Retrieved =>
        /\ Len(results) = Len(system.index_mapping)
        /\ \A d \in Range(system.index_mapping) :
              Cardinality({ i \in 1..Len(results) : results[i].id = d }) = 1
        /\ \A i \in 1..Len(results) :
              LET r == results[i]
                  a == IF Mappings(r.id).abstract = NoRow THEN NegInf
                       ELSE call.similarities[Mappings(r.id).abstract]
                  c == IF Mappings(r.id).conclusions = NoRow THEN NegInf
                       ELSE call.similarities[Mappings(r.id).conclusions]
              IN  /\ r.score = Max(a, c)
                  /\ r.section \in {"abstract", "conclusions"}
                  /\ r.section = "abstract" => a = r.score
                  /\ r.section = "conclusions" => c = r.score
                  /\ a > c => r.section = "abstract"
                  /\ c > a => r.section = "conclusions"

C8_Witness ==
    /\ Retrieved
    /\ \E i \in 1..Len(results) :
          /\ results[i].id = "d1"
          /\ results[i].section = "abstract"
          /\ call.similarities[1] > call.similarities[2]
    /\ \E i \in 1..Len(results) : results[i].id = "d3" /\ results[i].section = "conclusions"
    /\ \E i \in 1..Len(results) : results[i].id = "d2" /\ results[i].score > NegInf

\* C9 as stated: without a temporal cue the analyzer returns "no temporal aspect"
\* and never calls the client; retrieve with temporal weighting disabled calls
\* neither the analyzer nor the client and uses the "no temporal aspect" intent.
FastPath ==
    /\ call.op = "analyze" \/ (call.op = "retrieve" /\ system.weight_date /\ ~call.time_result.given)
    /\ returned.status # "idle"
    /\ call.op = "retrieve" => system.client # None
    /\ ~is_temporal_query(call.query)
WeightingDisabled ==
    /\ call.op = "retrieve"
    /\ ~system.weight_date
    /\ system.client # None
C9_FastPathNoClient ==
    /\ FastPath =>
          /\ returned.status = "ok"
          /\ returned.time_result = NoTemporalAspect
          /\ clientCalls = 0
    /\ WeightingDisabled =>
          /\ analyzerCalls = 0
          /\ clientCalls = 0
          /\ returned.status = "ok"
          /\ returned.time_result = NoTemporalAspect

\* C9 amended: as C9, but with temporal weighting disabled the "no temporal
\* aspect" intent is used when the caller gave no time_result; a time_result
\* given by the caller is used as it is.
C9_FastPathNoClientUnlessGiven ==
    /\ FastPath =>
          /\ returned.status = "ok"
          /\ returned.time_result = NoTemporalAspect
          /\ clientCalls = 0
    /\ WeightingDisabled =>
          /\ analyzerCalls = 0
          /\ clientCalls = 0
          /\ returned.status = "ok"
          /\ returned.time_result =
                IF call.time_result.given THEN call.time_result.value ELSE NoTemporalAspect

C9_Witness ==
    /\ FastPath
    /\ call.op = "retrieve"
    /\ analyzerCalls = 1
    /\ system.anthropic_client # None
    /\ returned.time_result = NoTemporalAspect
    /\ returned.value # <<>>

\* C10: when a cue matches and the model's answer does not parse into the two
\* fields, retrieve falls back to "no temporal aspect" and still returns the
\* ranked result; the malformed answer never aborts the retrieval call.
MalformedAnswer ==
    /\ call.op = "retrieve"
    /\ system.weight_date
    /\ ~call.time_result.given
    /\ system.client # None
    /\ system.anthropic_client # None
    /\ is_temporal_query(call.query)
    /\ ~call.response.fails
    /\ ~Parses(call.response)
C10_MalformedFallsBack ==
    MalformedAnswer =>
        /\ returned.status = "ok"
        /\ ~returned.time_result.has_temporal_aspect
        /\ returned.value = Ranked(ScoreAll(system.index_mapping, call.similarities),
                                   call.top_k, call.return_scores)

(***************************************************************************)
(* Properties of get_document_texts and retrieve_context                   *)
(***************************************************************************)
InDocuments(id) == \E i \in 1..Len(system.documents) : system.documents[i].id = id

\* C11: get_document_texts never fails because of an unknown id; it returns one
\* {id, abstract, conclusions} record for each input id present in the document
\* set, in the order of the input ids, and none for an absent id.
C11_KnownIdsInOrder ==
    call.op = "get_document_texts" =>
        LET present == SelectSeq(call.doc_ids, InDocuments) IN
        /\ returned.status = "ok"
        /\ Len(returned.value) = Len(present)
        /\ \A i \in 1..Len(present) :
              /\ returned.value[i].id = present[i]
              /\ DOMAIN returned.value[i] = {"id", "abstract", "conclusions"}
              /\ \E j \in 1..Len(system.documents) :
                    /\ system.documents[j].id = present[i]
                    /\ system.documents[j].abstract = returned.value[i].abstract
                    /\ system.documents[j].conclusions = returned.value[i].conclusions

C11_Witness ==
    /\ call.op = "get_document_texts"
    /\ call.doc_ids = <<"d3", "d9", "d1">>
    /\ Len(system.documents) = 2
    /\ ~InDocuments("d2")
    /\ Len(returned.value) = 2

\* C14: in retrieve_context every context line and every returned Document pairs
\* a retrieved document id with the abstract and conclusions of that same
\* document, also when retrieved ids are absent from the document set.
C14_TextsOfTheSameDocument ==
    (call.op = "retrieve_context" /\ returned.status = "ok") =>
        /\ \A i \in 1..Len(returned.value.context_str) :
              LET line == returned.value.context_str[i] IN
              line.text \in {Document(line.docid).abstract, Document(line.docid).conclusions}
        /\ \A i \in 1..Len(returned.value.doclist) :
              LET doc == returned.value.doclist[i] IN
              /\ doc.abstract = Document(doc.id).abstract
              /\ doc.conclusions = Document(doc.id).conclusions

(***************************************************************************)
(* Properties of the export                                                *)
(***************************************************************************)
\* rec is the record of node id: its text, the links of its docs in their order,
\* and the records of its children in their order, no children key without children
RECURSIVE RecordOfNode(_, _)
RecordOfNode(rec, id) ==
    /\ rec.text = nodes[id].text
    /\ Len(rec.papers) = Len(nodes[id].docs)
    /\ \A i \in 1..Len(rec.papers) : rec.papers[i] = format_paper_link(nodes[id].docs[i])
    /\ IF nodes[id].children = <<>>
       THEN DOMAIN rec = {"text", "papers"}
       ELSE /\ DOMAIN rec = {"text", "papers", "children"}
            /\ Len(rec.children) = Len(nodes[id].children)
            /\ \A i \in 1..Len(rec.children) :
                  RecordOfNode(rec.children[i], nodes[id].children[i])

\* C12: the record exported by build_tree_structure, and the record read back
\* after saving and loading it, have for every node its text, its paper links in
\* the order of node.docs and its children's records in the order of
\* node.children, a node without children having no children in its record.
C12_ExportRoundTrip ==
    tree_output.source \in {"generate", "file"} => RecordOfNode(tree_output.tree[1], 1)

C12_Witness ==
    /\ tree_output.source = "file"
    /\ Len(nodes[1].children) = 2
    /\ \E c \in NodeIds : nodes[c].parent # 0 /\ nodes[c].children # <<>>
    /\ \E c \in NodeIds : nodes[c].parent # 0 /\ Len(nodes[c].docs) = 2
    /\ nodes[nodes[1].children[1]].text # nodes[nodes[1].children[2]].text

====
